---- MODULE Spec2Model ----
(***************************************************************************)
(* "Did I Pay?" expense-memory tracker: the App component's state, its     *)
(* handlers (addExpense, archiveData, undoArchive, the undo timer, the     *)
(* view routing), the storage slots, and the pure computations of the      *)
(* screens (balance, balanceText, filteredExpenses, nudgeItem).            *)
(*                                                                         *)
(* Representation.  A JavaScript string that the code inspects character   *)
(* by character (person, label, mode, the search query, the amount typed   *)
(* in the form) is a sequence of one-character strings: "Rohit" is         *)
(* <<"R","o","h","i","t">>.  A status is only compared, and is a plain     *)
(* string.  An amount and a balance are IEEE 754 doubles (see Numbers).    *)
(* An optional field that is undefined is a field the record does not      *)
(* have.  Times are milliseconds since the start of the session.           *)
(***************************************************************************)
EXTENDS Integers, Sequences, FiniteSets, TLC

VARIABLES
    phase,            \* "mounting", "ready" or "crashed" (the React tree)
    pending,          \* state updates queued by an effect or a timer, not yet rendered
    effectPending,    \* whether the save effect of the last render has yet to run
    view,             \* useState<View>('home')
    expenses,         \* useState<Expense[]>([])
    selectedPerson,   \* useState<string | null>(null)
    searchQuery,      \* useState('')
    showUndo,         \* useState(false)
    lastArchivedData, \* useRef<Expense[]>([])
    undoTimeoutRef,   \* useRef<number | null>(null)
    localStorage,     \* the two slots, by key
    timers,           \* pending window.setTimeout callbacks: [id, due]
    nextTimer,        \* the id the next setTimeout returns
    clock,            \* Date.now()
    nextId,           \* one more than the number of records created
    hist,             \* history of the run, for stating the properties
    records,          \* input of a pure computation: a sequence of records
    query,            \* input of a pure computation: a search query
    now,              \* input of a pure computation: Date.now()
    out               \* result of the pure computation

appVars == <<phase, pending, effectPending, view, expenses, selectedPerson, searchQuery, showUndo,
             lastArchivedData, undoTimeoutRef, localStorage, timers, nextTimer,
             clock, nextId, hist>>
fnVars == <<records, query, now, out>>
vars == <<phase, pending, effectPending, view, expenses, selectedPerson, searchQuery, showUndo,
          lastArchivedData, undoTimeoutRef, localStorage, timers, nextTimer,
          clock, nextId, hist, records, query, now, out>>

(***************************************************************************)
(* Bounds of the model.                                                    *)
(***************************************************************************)
MaxRecords == 1      \* records created through the form in one run
MaxTicks == 2        \* steps of the clock in one run
MaxArchives == 2     \* archives that go through in one run
MaxLen == 3          \* records given to PersonDetail and to the nudge
MaxFilterLen == 2    \* records given to the filter

(***************************************************************************)
(* Program constants.                                                      *)
(***************************************************************************)
STORAGE_KEY == "did-i-pay-expenses"
ARCHIVE_KEY == "did-i-pay-archive"
UndoMs == 10000
DayMs == 1000 * 60 * 60 * 24
EndOfMonthDay == 25
NudgeMinDays == 3
NudgeMaxDays == 7
TickMs == UndoMs \div 2   \* the step of the model's clock

\* null, where a string is expected: no string, as no character is "null"
Null == <<"null">>

\* null, where a timer id is expected: setTimeout returns positive ids
NullTimer == 0

(***************************************************************************)
(* Strings.                                                                *)
(***************************************************************************)
UpperCase == <<"A","B","C","D","E","F","G","H","I","J","K","L","M",
               "N","O","P","Q","R","S","T","U","V","W","X","Y","Z",
               "À","Á","Â","Ã","Ä","Å","Æ","Ç","È","É","Ê","Ë","Ì",
               "Í","Î","Ï","Ð","Ñ","Ò","Ó","Ô","Õ","Ö","Ø","Ù","Ú",
               "Û","Ü","Ý","Þ">>
LowerCase == <<"a","b","c","d","e","f","g","h","i","j","k","l","m",
               "n","o","p","q","r","s","t","u","v","w","x","y","z",
               "à","á","â","ã","ä","å","æ","ç","è","é","ê","ë","ì",
               "í","î","ï","ð","ñ","ò","ó","ô","õ","ö","ø","ù","ú",
               "û","ü","ý","þ">>
Digits == <<"0","1","2","3","4","5","6","7","8","9">>

\* the white space and line terminators String.prototype.trim and parseFloat
\* strip, of the characters a string of this module can hold: tab, line
\* feed, vertical tab, form feed, carriage return, space, no-break space,
\* U+1680 and U+FEFF
WhiteSpace == {"\t", "\n", "", "\f", "\r", " ", " ", " ", "﻿"}

\* nothing: what an operator is on an argument it has no value for
noValue(x) == CHOOSE v \in {} : v = x

\* the characters of U+0020..U+007E and U+00A0..U+00FF, and the white space
\* above, that toLowerCase leaves as they are (without U+0060, which the
\* strings of this notation cannot hold)
Caseless ==
    WhiteSpace \cup
    {" ", "!", "\"", "#", "$", "%", "&", "'", "(", ")", "*", "+",
     ",", "-", ".", "/", "0", "1", "2", "3", "4", "5", "6", "7",
     "8", "9", ":", ";", "<", "=", ">", "?", "@", "[", "\\", "]",
     "^", "_", "a", "b", "c", "d", "e", "f", "g", "h", "i",
     "j", "k", "l", "m", "n", "o", "p", "q", "r", "s", "t", "u",
     "v", "w", "x", "y", "z", "{", "|", "}", "~", " ", "¡", "¢",
     "£", "¤", "¥", "¦", "§", "¨", "©", "ª", "«", "¬", "­", "®",
     "¯", "°", "±", "²", "³", "´", "µ", "¶", "·", "¸", "¹", "º",
     "»", "¼", "½", "¾", "¿", "×", "ß", "à", "á", "â", "ã", "ä",
     "å", "æ", "ç", "è", "é", "ê", "ë", "ì", "í", "î", "ï", "ð",
     "ñ", "ò", "ó", "ô", "õ", "ö", "÷", "ø", "ù", "ú", "û", "ü",
     "ý", "þ", "ÿ"}

\* String.prototype.toLowerCase, one character.  The characters of the
\* model are those of UpperCase and of Caseless: toLowerCase changes A-Z,
\* U+00C0..U+00D6 and U+00D8..U+00DE, each to the character 32 further on,
\* and leaves the characters of Caseless; on any other character (a control
\* character, a character above U+00FF) the operator has no value.
toLowerChar(c) ==
    IF \E i \in 1..Len(UpperCase) : UpperCase[i] = c
    THEN LowerCase[CHOOSE i \in 1..Len(UpperCase) : UpperCase[i] = c]
    ELSE IF c \in Caseless THEN c
    ELSE noValue(c)

\* String.prototype.toLowerCase
toLowerCase(s) == [i \in 1..Len(s) |-> toLowerChar(s[i])]

\* s.startsWith(q)
startsWith(s, q) ==
    /\ Len(q) <= Len(s)
    /\ \A i \in 1..Len(q) : s[i] = q[i]

\* String.prototype.includes: q occurs in s at some position
RECURSIVE includes(_, _)
includes(s, q) ==
    IF Len(q) > Len(s) THEN FALSE
    ELSE IF startsWith(s, q) THEN TRUE
    ELSE includes(Tail(s), q)

\* String.prototype.trim, the leading side
RECURSIVE trimStart(_)
trimStart(s) ==
    IF s # <<>> /\ Head(s) \in WhiteSpace THEN trimStart(Tail(s)) ELSE s

\* String.prototype.trim, the trailing side
RECURSIVE trimEnd(_)
trimEnd(s) ==
    IF s # <<>> /\ s[Len(s)] \in WhiteSpace
    THEN trimEnd(SubSeq(s, 1, Len(s) - 1))
    ELSE s

\* String.prototype.trim
trim(s) == trimEnd(trimStart(s))

(***************************************************************************)
(* Numbers.  A Number of the code is an IEEE 754 double.  It is held as    *)
(* [kind, neg, sig, exp]: kind is "NaN", "Infinity" or "finite", neg is    *)
(* the sign, and a finite Number is sig * 2^exp exactly.  sig is a natural *)
(* number of any size written in base 2^15, the least significant digit    *)
(* first and no zero digit at either end (0 is <<>>), and exp is a         *)
(* multiple of 15: 1.5 = 49152 * 2^-15 is sig <<16384, 1>>, exp -15 and    *)
(* 120 is sig <<120>>, exp 0.  Each operation computes its exact result    *)
(* and rounds it once, to the nearest double (nearestDouble), as the       *)
(* arithmetic of the code does.  -0 is held as 0: the code never tells     *)
(* them apart.                                                             *)
(***************************************************************************)
LimbBits == 15
Radix == 2^LimbBits
SignificandBits == 53
MinExponent == 0 - 1074
MaxExponent == 1024

pow2(k) == 2^k

\* the digit of place i of the natural number a
limb(a, i) == IF i <= Len(a) THEN a[i] ELSE 0

\* a without zero digits at the top
RECURSIVE natTrim(_)
natTrim(a) ==
    IF a # <<>> /\ a[Len(a)] = 0 THEN natTrim(SubSeq(a, 1, Len(a) - 1))
    ELSE a

\* the natural number n of the checker, n < 2^31, as a sequence of digits
RECURSIVE natOfInt(_)
natOfInt(n) ==
    IF n = 0 THEN <<>> ELSE <<n % Radix>> \o natOfInt(n \div Radix)

\* and back, for a below 2^31
RECURSIVE intOfNat(_)
intOfNat(a) == IF a = <<>> THEN 0 ELSE a[1] + Radix * intOfNat(Tail(a))

\* a + b in the places lo..hi with carry c into lo: the digits of the sum
\* there and the carry out of hi.  The range is done by halves, the lower
\* one first, which keeps the evaluation shallow.
RECURSIVE natAddRange(_, _, _, _, _)
natAddRange(a, b, lo, hi, c) ==
    IF lo = hi
    THEN LET s == limb(a, lo) + limb(b, lo) + c
         IN [d |-> <<s % Radix>>, c |-> s \div Radix]
    ELSE LET mid == (lo + hi) \div 2
             low == natAddRange(a, b, lo, mid, c)
             high == natAddRange(a, b, mid + 1, hi, low.c)
         IN [d |-> low.d \o high.d, c |-> high.c]

natAdd(a, b) ==
    IF a = <<>> THEN b
    ELSE IF b = <<>> THEN a
    ELSE LET x == natAddRange(a, b, 1, IF Len(a) > Len(b) THEN Len(a) ELSE Len(b), 0)
         IN x.d \o (IF x.c = 0 THEN <<>> ELSE <<x.c>>)

\* a - b for a >= b, in the same way, c the borrow
RECURSIVE natSubRange(_, _, _, _, _)
natSubRange(a, b, lo, hi, c) ==
    IF lo = hi
    THEN LET s == a[lo] - limb(b, lo) - c
         IN [d |-> <<IF s < 0 THEN s + Radix ELSE s>>,
             c |-> IF s < 0 THEN 1 ELSE 0]
    ELSE LET mid == (lo + hi) \div 2
             low == natSubRange(a, b, lo, mid, c)
             high == natSubRange(a, b, mid + 1, hi, low.c)
         IN [d |-> low.d \o high.d, c |-> high.c]

natSub(a, b) ==
    IF b = <<>> THEN a ELSE natTrim(natSubRange(a, b, 1, Len(a), 0).d)

\* a < b: they differ, and at the highest place where they do a is less
natLess(a, b) ==
    IF Len(a) # Len(b) THEN Len(a) < Len(b)
    ELSE \E i \in 1..Len(a) :
             a[i] < b[i] /\ \A j \in i + 1..Len(a) : a[j] = b[j]

\* a * m for 0 < m <= 2^15, in the same way
RECURSIVE natMulRange(_, _, _, _, _)
natMulRange(a, m, lo, hi, c) ==
    IF lo = hi
    THEN LET p == a[lo] * m + c
         IN [d |-> <<p % Radix>>, c |-> p \div Radix]
    ELSE LET mid == (lo + hi) \div 2
             low == natMulRange(a, m, lo, mid, c)
             high == natMulRange(a, m, mid + 1, hi, low.c)
         IN [d |-> low.d \o high.d, c |-> high.c]

natMul(a, m) ==
    IF a = <<>> THEN a
    ELSE LET x == natMulRange(a, m, 1, Len(a), 0)
         IN x.d \o (IF x.c = 0 THEN <<>> ELSE <<x.c>>)

\* a divided by d, 0 < d <= 2^15, in the places lo..hi with the remainder
\* r from above hi, the upper half first: the digits of the quotient
\* there, the highest first, and the remainder
RECURSIVE natDivRange(_, _, _, _, _)
natDivRange(a, d, lo, hi, r) ==
    IF lo = hi
    THEN LET cur == r * Radix + a[lo]
         IN [q |-> <<cur \div d>>, r |-> cur % d]
    ELSE LET mid == (lo + hi) \div 2
             high == natDivRange(a, d, mid + 1, hi, r)
             low == natDivRange(a, d, lo, mid, high.r)
         IN [q |-> high.q \o low.q, r |-> low.r]

natDiv(a, d) ==
    IF a = <<>> THEN [q |-> a, r |-> 0]
    ELSE LET x == natDivRange(a, d, 1, Len(a), 0)
         IN [q |-> natTrim([i \in 1..Len(a) |-> x.q[Len(a) + 1 - i]]),
             r |-> x.r]

\* a * 2^(15 * k)
natShift(a, k) == IF a = <<>> THEN a ELSE [i \in 1..k |-> 0] \o a

\* a * m^k for m <= 2^15: by squares of m while they are no more than
\* 2^15, and then by halves of k
RECURSIVE natTimes(_, _, _)
natTimes(a, m, k) ==
    IF a = <<>> \/ k = 0 THEN a
    ELSE IF k % 2 = 0 /\ m * m <= Radix THEN natTimes(a, m * m, k \div 2)
    ELSE IF k = 1 THEN natMul(a, m)
    ELSE natTimes(natTimes(a, m, k \div 2), m, k - k \div 2)

\* a divided by m^k, each division rounded down, in the same steps: the
\* quotient, and whether a remainder was lost
RECURSIVE natOver(_, _, _, _)
natOver(a, m, k, lost) ==
    IF a = <<>> \/ k = 0 THEN [q |-> a, lost |-> lost]
    ELSE IF k % 2 = 0 /\ m * m <= Radix THEN natOver(a, m * m, k \div 2, lost)
    ELSE IF k = 1
    THEN LET x == natDiv(a, m) IN [q |-> x.q, lost |-> lost \/ x.r # 0]
    ELSE LET y == natOver(a, m, k \div 2, lost)
         IN natOver(y.q, m, k - k \div 2, y.lost)

\* the number of binary digits of v and of a
RECURSIVE limbLength(_)
limbLength(v) == IF v = 0 THEN 0 ELSE 1 + limbLength(v \div 2)

natLength(a) ==
    IF a = <<>> THEN 0 ELSE LimbBits * (Len(a) - 1) + limbLength(a[Len(a)])

NaN == [kind |-> "NaN", neg |-> FALSE, sig |-> <<>>, exp |-> 0]
Infinity == [kind |-> "Infinity", neg |-> FALSE, sig |-> <<>>, exp |-> 0]
NegInfinity == [kind |-> "Infinity", neg |-> TRUE, sig |-> <<>>, exp |-> 0]

\* Number.isFinite
isFinite(x) == x.kind = "finite"

\* the finite Number n * 2^exp, n of at most 53 binary digits and exp a
\* multiple of 15 from -1080 on: the zero digits at the low end of n go
\* into exp
RECURSIVE finite(_, _, _)
finite(neg, n, exp) ==
    IF n = <<>> THEN [kind |-> "finite", neg |-> FALSE, sig |-> <<>>, exp |-> 0]
    ELSE IF n[1] = 0 THEN finite(neg, Tail(n), exp + LimbBits)
    ELSE [kind |-> "finite", neg |-> neg, sig |-> n, exp |-> exp]

\* n * 2^exp as a Number: Infinity from 2^1024 on
bounded(neg, n, exp) ==
    IF natLength(n) + exp > MaxExponent
    THEN (IF neg THEN NegInfinity ELSE Infinity)
    ELSE finite(neg, n, exp)

\* whether v is rounded up when the q lowest digits of n and the r lowest
\* binary places of the next digit are dropped: t is the part dropped in
\* the highest digit they reach and h the weight of the highest place
\* dropped there, so v is above the middle of the two nearest doubles when
\* t > h, or when t = h and something is left below; in the middle the even
\* one is taken
roundsUp(n, q, r, sticky) ==
    LET t == IF r = 0 THEN limb(n, q) ELSE limb(n, q + 1) % pow2(r)
        h == IF r = 0 THEN pow2(LimbBits - 1) ELSE pow2(r - 1)
        below == IF r = 0 THEN q - 1 ELSE q
    IN \/ t > h
       \/ /\ t = h
          /\ \/ sticky
             \/ \E i \in 1..below : limb(n, i) # 0
             \/ (limb(n, q + 1) \div pow2(r)) % 2 = 1

\* n without its q lowest digits and the r lowest binary places of the
\* next one
kept(n, q, r) ==
    natTrim(<<limb(n, q + 1) - (limb(n, q + 1) % pow2(r))>>
            \o SubSeq(n, q + 2, Len(n)))

\* the double nearest to v, the even one of two equally near, for
\* v = n * 2^exp (sticky false) or n * 2^exp < v < (n + 1) * 2^exp (sticky
\* true, n of 55 binary digits or more), exp a multiple of 15.  The lowest
\* binary place a double of the size of v holds is low: 53 places below
\* the highest of n, and -1074 at least.  The places of n below low are
\* dropped, q digits and r binary places of the next.
nearestDouble(neg, n, exp, sticky) ==
    LET top == exp + natLength(n)
        low == IF top - SignificandBits > MinExponent
               THEN top - SignificandBits ELSE MinExponent
        q == (low - exp) \div LimbBits
        r == (low - exp) % LimbBits
    IN IF low <= exp THEN bounded(neg, n, exp)
       ELSE bounded(neg,
                    IF roundsUp(n, q, r, sticky)
                    THEN natAdd(kept(n, q, r), <<pow2(r)>>)
                    ELSE kept(n, q, r),
                    exp + q * LimbBits)

\* the double nearest to a quotient x of natOver, times 2^exp
quotientDouble(neg, x, exp) == nearestDouble(neg, x.q, exp, x.lost)

\* the double nearest to d * 10^e10, d a natural number: a whole number is
\* rounded as it is; a fraction is d * 2^(15 * s) divided by 10^(-e10),
\* with s for a quotient of 55 binary digits or more, times 2^(-15 * s).
\* Below 2^-1076 the double is 0 and from 2^1025 on it is Infinity, which
\* is decided on the length of d alone (8 < 10 < 16).
decimalDouble(neg, d, e10) ==
    IF d = <<>> THEN finite(FALSE, <<>>, 0)
    ELSE IF e10 < 0 /\ natLength(d) + 3 * e10 < MinExponent - 2
    THEN finite(FALSE, <<>>, 0)
    ELSE IF e10 >= 0 /\ natLength(d) - 1 + 3 * e10 > MaxExponent
    THEN (IF neg THEN NegInfinity ELSE Infinity)
    ELSE IF e10 >= 0 THEN nearestDouble(neg, natTimes(d, 10, e10), 0, FALSE)
    ELSE LET s == (55 - 4 * e10) \div LimbBits + 1
         IN quotientDouble(neg, natOver(natShift(d, s), 10, 0 - e10, FALSE),
                           0 - s * LimbBits)

\* the Number the decimal m / 10^e denotes, m an integer below 2^31 in
\* magnitude
decimal(m, e) ==
    decimalDouble(m < 0, natOfInt(IF m < 0 THEN 0 - m ELSE m), 0 - e)

\* the whole number n, below 2^31 in magnitude: a double holds it exactly
whole(n) == finite(n < 0, natOfInt(IF n < 0 THEN 0 - n ELSE n), 0)

\* unary minus
negate(x) ==
    IF x.kind = "NaN" \/ (isFinite(x) /\ x.sig = <<>>) THEN x
    ELSE [x EXCEPT !.neg = ~@]

\* the sum of two finite Numbers before it is rounded: sign, magnitude n
\* and exponent, for n * 2^exp
exactSum(x, y) ==
    LET e == IF x.exp < y.exp THEN x.exp ELSE y.exp
        a == natShift(x.sig, (x.exp - e) \div LimbBits)
        b == natShift(y.sig, (y.exp - e) \div LimbBits)
    IN IF x.neg = y.neg THEN [neg |-> x.neg, n |-> natAdd(a, b), exp |-> e]
       ELSE IF natLess(a, b) THEN [neg |-> y.neg, n |-> natSub(b, a), exp |-> e]
       ELSE [neg |-> x.neg, n |-> natSub(a, b), exp |-> e]

\* x + y: NaN when either is NaN or they are the two infinities, an
\* infinity when one is, and otherwise the double nearest to the sum
\* (0.1 + 0.2 is 0.30000000000000004)
plus(x, y) ==
    IF x = NaN \/ y = NaN THEN NaN
    ELSE IF ~isFinite(x) THEN (IF ~isFinite(y) /\ y # x THEN NaN ELSE x)
    ELSE IF ~isFinite(y) THEN y
    ELSE LET s == exactSum(x, y) IN nearestDouble(s.neg, s.n, s.exp, FALSE)

\* x - y
minus(x, y) == plus(x, negate(y))

\* x / 2
half(x) ==
    IF isFinite(x)
    THEN nearestDouble(x.neg, natMul(x.sig, pow2(LimbBits - 1)),
                       x.exp - LimbBits, FALSE)
    ELSE x

\* x > 0 and x < 0: both false of NaN
greaterThan0(x) == x.kind # "NaN" /\ ~x.neg /\ (~isFinite(x) \/ x.sig # <<>>)
lessThan0(x) == x.kind # "NaN" /\ x.neg /\ (~isFinite(x) \/ x.sig # <<>>)

\* the value of a decimal digit
digitValue(c) == (CHOOSE i \in 1..10 : Digits[i] = c) - 1

isDigit(c) == \E i \in 1..10 : Digits[i] = c

\* the longest run of decimal digits s starts with
RECURSIVE digitRun(_)
digitRun(s) ==
    IF s # <<>> /\ isDigit(Head(s)) THEN <<Head(s)>> \o digitRun(Tail(s))
    ELSE <<>>

\* the whole number a run of digits d denotes, after acc
RECURSIVE digitsValue(_, _)
digitsValue(d, acc) ==
    IF d = <<>> THEN acc
    ELSE digitsValue(Tail(d), acc * 10 + digitValue(Head(d)))

\* the same of any size
RECURSIVE natOfDigits(_, _)
natOfDigits(d, acc) ==
    IF d = <<>> THEN acc
    ELSE natOfDigits(Tail(d),
                     natAdd(natMul(acc, 10), natOfInt(digitValue(Head(d)))))

\* the decimal digits of a natural number, of the checker and of any size
RECURSIVE natToString(_)
natToString(n) ==
    IF n < 10 THEN <<Digits[n + 1]>>
    ELSE natToString(n \div 10) \o <<Digits[(n % 10) + 1]>>

\* n times the character "0"
zeros(n) == [i \in 1..n |-> "0"]

\* s without its first n characters
drop(s, n) == SubSeq(s, n + 1, Len(s))

\* the decimal digits of a natural number of any size, four at a time
RECURSIVE natDigits(_)
natDigits(a) ==
    LET x == natDiv(a, 10000)
        d == natToString(x.r)
    IN IF x.q = <<>> THEN d ELSE natDigits(x.q) \o zeros(4 - Len(d)) \o d

\* the exponent part of a literal, after the e: a sign and digits
exponentValue(r) ==
    IF r # <<>> /\ Head(r) = "-" THEN 0 - digitsValue(digitRun(Tail(r)), 0)
    ELSE IF r # <<>> /\ Head(r) = "+" THEN digitsValue(digitRun(Tail(r)), 0)
    ELSE digitsValue(digitRun(r), 0)

\* the value of the literal with the digits int before the point and frac
\* after it, r what follows them: NaN when there is no digit
parseExponent(neg, int, frac, r) ==
    IF int = <<>> /\ frac = <<>> THEN NaN
    ELSE decimalDouble(neg, natOfDigits(int \o frac, <<>>),
                       (IF r # <<>> /\ Head(r) \in {"e", "E"}
                        THEN exponentValue(Tail(r)) ELSE 0) - Len(frac))

\* the same with r what follows int: a point and digits, if there
parseFraction(neg, int, r) ==
    IF r # <<>> /\ Head(r) = "."
    THEN parseExponent(neg, int, digitRun(Tail(r)),
                       drop(r, 1 + Len(digitRun(Tail(r)))))
    ELSE parseExponent(neg, int, <<>>, r)

\* the value of u, the text after the sign
parseUnsigned(neg, u) ==
    IF startsWith(u, <<"I","n","f","i","n","i","t","y">>)
    THEN (IF neg THEN NegInfinity ELSE Infinity)
    ELSE parseFraction(neg, digitRun(u), drop(u, Len(digitRun(u))))

\* the value of t, the text without leading white space
parseSigned(t) ==
    parseUnsigned(t # <<>> /\ Head(t) = "-",
                  IF t # <<>> /\ Head(t) \in {"+", "-"} THEN Tail(t) ELSE t)

\* parseFloat: leading white space is skipped, then the longest prefix that
\* is a decimal literal is read: a sign, then Infinity or digits, a point
\* and digits (one of the two runs of digits may be missing), and an
\* exponent part if it is complete; NaN when there is no such prefix.  The
\* value is the double nearest to the literal.
parseFloat(s) == parseSigned(trimStart(s))

\* the run of decimal digits d plus one in its last place
RECURSIVE increment(_)
increment(d) ==
    IF d = <<>> THEN <<"1">>
    ELSE IF d[Len(d)] = "9" THEN increment(SubSeq(d, 1, Len(d) - 1)) \o <<"0">>
    ELSE SubSeq(d, 1, Len(d) - 1) \o <<Digits[digitValue(d[Len(d)]) + 2]>>

\* the magnitude of a finite x # 0 written out in full: its digits, and
\* how many of them follow the point.  sig * 2^exp is first brought to an
\* odd number times a power of 2, o * 2^p; below the point that is
\* o * 5^(-p) / 10^(-p).
expansion(x) ==
    LET z == CHOOSE j \in 0..LimbBits - 1 :
                 x.sig[1] % pow2(j) = 0 /\ x.sig[1] % pow2(j + 1) # 0
        o == natDiv(x.sig, pow2(z)).q
        p == x.exp + z
    IN [digits |-> natDigits(IF p >= 0
                             THEN natShift(natMul(o, pow2(p % LimbBits)),
                                           p \div LimbBits)
                             ELSE natTimes(o, 5, 0 - p)),
        places |-> IF p >= 0 THEN 0 ELSE 0 - p]

\* whether x is the double nearest to c * 10^e10, c a run of digits
denotes(c, e10, x) == decimalDouble(FALSE, natOfDigits(c, <<>>), e10) = x

\* the shortest decimal, of n digits or more, whose nearest double is the
\* finite x > 0 with the expansion d: digits c and exponent e10, for
\* c * 10^e10.  Of the two decimals of n digits around x the nearer one is
\* tried first, the even one when x is in the middle.
RECURSIVE shortest(_, _, _)
shortest(x, d, n) ==
    IF Len(d.digits) <= n THEN [c |-> d.digits, e10 |-> 0 - d.places]
    ELSE LET head == SubSeq(d.digits, 1, n)
             tail == drop(d.digits, n)
             e10 == Len(tail) - d.places
             middle == Head(tail) = "5" /\ \A i \in 2..Len(tail) : tail[i] = "0"
             above == IF middle THEN digitValue(head[n]) % 2 = 1
                      ELSE digitValue(Head(tail)) >= 5
             first == IF above THEN increment(head) ELSE head
             second == IF above THEN head ELSE increment(head)
         IN IF denotes(first, e10, x) THEN [c |-> first, e10 |-> e10]
            ELSE IF denotes(second, e10, x) THEN [c |-> second, e10 |-> e10]
            ELSE shortest(x, d, n + 1)

\* a decimal without the zeros at the end of its digits
RECURSIVE stripped(_)
stripped(s) ==
    IF Len(s.c) > 1 /\ s.c[Len(s.c)] = "0"
    THEN stripped([c |-> SubSeq(s.c, 1, Len(s.c) - 1), e10 |-> s.e10 + 1])
    ELSE s

\* the decimal s, digits s.c and exponent s.e10, as the code writes it,
\* with d the digits and n the place of the point among them: the digits
\* and zeros after them for a whole number below 10^21, the point inside
\* them when 0 < n, 0. and zeros in front when -6 < n <= 0, and the
\* exponent form otherwise
written(s) ==
    LET d == s.c
        n == Len(s.c) + s.e10
    IN IF Len(d) <= n /\ n <= 21 THEN d \o zeros(n - Len(d))
       ELSE IF 0 < n /\ n <= 21 THEN SubSeq(d, 1, n) \o <<".">> \o drop(d, n)
       ELSE IF -6 < n /\ n <= 0 THEN <<"0", ".">> \o zeros(0 - n) \o d
       ELSE <<Head(d)>> \o (IF Len(d) > 1 THEN <<".">> \o Tail(d) ELSE <<>>)
            \o <<"e", IF n > 0 THEN "+" ELSE "-">>
            \o natToString(IF n > 0 THEN n - 1 ELSE 1 - n)

\* Number.prototype.toString: the shortest decimal that denotes x, written
\* with its sign
numberToString(x) ==
    IF x = NaN THEN <<"N","a","N">>
    ELSE IF x = Infinity THEN <<"I","n","f","i","n","i","t","y">>
    ELSE IF x = NegInfinity THEN <<"-","I","n","f","i","n","i","t","y">>
    ELSE IF x.sig = <<>> THEN <<"0">>
    ELSE (IF x.neg THEN <<"-">> ELSE <<>>)
         \o written(stripped(shortest([x EXCEPT !.neg = FALSE],
                                      expansion(x), 1)))

\* the strings of the amounts the inputs of this module hold, worked out
\* once
AmountStrings ==
    [x \in {whole(0), whole(1), decimal(15, 1), whole(120), whole(200)} |->
       numberToString(x)]

\* the string of x: the one the table has for it, or else the one
\* worked out
stringOf(table, x) ==
    IF x \in DOMAIN table THEN table[x] ELSE numberToString(x)

\* Number.prototype.toString, looked up for those amounts
toString(x) == stringOf(AmountStrings, x)

\* a sequence of characters as one string
RECURSIVE text(_)
text(s) == IF s = <<>> THEN "" ELSE Head(s) \o text(Tail(s))

(***************************************************************************)
(* Records.  types.ts: Expense.  proof (an image payload the code only     *)
(* passes through) is left undefined throughout, so no record has it.      *)
(***************************************************************************)
UPI == <<"U","P","I">>
Cash == <<"C","a","s","h">>
PaymentMode == {Cash, UPI}
PaymentStatus == {"I Paid", "They Paid", "Split"}
View == {"home", "add", "person"}

\* an Expense whose optional label is present
Expense(id, amount, person, mode, label, status, timestamp) ==
    [id |-> id, amount |-> amount, person |-> person, mode |-> mode,
     label |-> label, status |-> status, timestamp |-> timestamp]

\* an Expense whose optional label is undefined
ExpenseNoLabel(id, amount, person, mode, status, timestamp) ==
    [id |-> id, amount |-> amount, person |-> person, mode |-> mode,
     status |-> status, timestamp |-> timestamp]

(***************************************************************************)
(* PersonDetail: balance and balanceText.                                  *)
(***************************************************************************)
\* balanceStep without the They Paid branch
balanceStep_TheyPaidAdds(acc, curr) ==
    IF curr.status = "Split" THEN plus(acc, half(curr.amount))
    ELSE plus(acc, curr.amount)

\* the reducer of PersonDetail.balance
balanceStep(acc, curr) ==
    IF curr.status = "They Paid" THEN minus(acc, curr.amount)
    ELSE IF curr.status = "Split" THEN plus(acc, half(curr.amount))
    ELSE plus(acc, curr.amount)

\* Array.prototype.reduce with balanceStep, left to right
RECURSIVE reduceBalance(_, _)
reduceBalance(acc, es) ==
    IF es = <<>> THEN acc
    ELSE reduceBalance(balanceStep(acc, Head(es)), Tail(es))

\* PersonDetail.balance
balance(es) == reduceBalance(whole(0), es)

\* Math.abs
abs(x) == [x EXCEPT !.neg = FALSE]

\* the whole number nearest to the magnitude of a finite x, the larger one
\* of two equally near.  Below the point of sig * 2^exp are the lowest
\* -exp / 15 digits of sig, and the highest of them is 2^14 or more when
\* they make a half or more.
nearestWhole(x) ==
    IF x.exp >= 0 THEN natShift(x.sig, x.exp \div LimbBits)
    ELSE natAdd(drop(x.sig, (0 - x.exp) \div LimbBits),
                IF limb(x.sig, (0 - x.exp) \div LimbBits) >= pow2(LimbBits - 1)
                THEN <<1>> ELSE <<>>)

\* Number.prototype.toFixed(0): the nearest whole number with the sign in
\* front; toString from 10^21 on
toFixed0(x) ==
    IF ~isFinite(x) \/ ~natLess(nearestWhole(x), natTimes(<<1>>, 10, 21))
    THEN toString(x)
    ELSE (IF x.neg THEN <<"-">> ELSE <<>>) \o natDigits(nearestWhole(x))

\* balanceText with >= for > and no Settled Up branch
balanceText_ZeroOwes(b) ==
    IF greaterThan0(b) \/ b = whole(0) THEN "Owes you ₹" \o text(toFixed0(b))
    ELSE "You owe ₹" \o text(toFixed0(abs(b)))

\* PersonDetail.balanceText
balanceText(b) ==
    IF greaterThan0(b) THEN "Owes you ₹" \o text(toFixed0(b))
    ELSE IF lessThan0(b) THEN "You owe ₹" \o text(toFixed0(abs(b)))
    ELSE "Settled Up"

(***************************************************************************)
(* App.filteredExpenses.                                                   *)
(***************************************************************************)
\* matches without the mode
matches_NoMode(e, q) ==
    \/ includes(toLowerCase(e.person), q)
    \/ ("label" \in DOMAIN e /\ includes(toLowerCase(e.label), q))
    \/ includes(toString(e.amount), q)

\* the predicate of expenses.filter: q is the lowercased query
matches(e, q) ==
    \/ includes(toLowerCase(e.person), q)
    \/ ("label" \in DOMAIN e /\ includes(toLowerCase(e.label), q))
    \/ includes(toString(e.amount), q)
    \/ includes(toLowerCase(e.mode), q)

\* Array.prototype.filter with matches
RECURSIVE filterMatches(_, _)
filterMatches(es, q) ==
    IF es = <<>> THEN <<>>
    ELSE IF matches(Head(es), q) THEN <<Head(es)>> \o filterMatches(Tail(es), q)
    ELSE filterMatches(Tail(es), q)

\* App.filteredExpenses
filteredExpenses(es, sq) ==
    IF sq = <<>> THEN es
    ELSE filterMatches(es, toLowerCase(sq))

(***************************************************************************)
(* Home.nudgeItem.  ageInDays = (now - timestamp) / DayMs is compared with *)
(* 3 and 7; the division by the positive DayMs is carried to the other     *)
(* side of the comparison.                                                 *)
(***************************************************************************)
\* isNudge with >= for > at 3 days
isNudge_Inclusive(e, t) ==
    /\ t - e.timestamp >= NudgeMinDays * DayMs
    /\ t - e.timestamp < NudgeMaxDays * DayMs

\* the predicate of expenses.find
isNudge(e, t) ==
    /\ t - e.timestamp > NudgeMinDays * DayMs
    /\ t - e.timestamp < NudgeMaxDays * DayMs

\* Array.prototype.find with isNudge: the first match, or undefined
RECURSIVE nudgeItem(_, _)
nudgeItem(es, t) ==
    IF es = <<>> THEN [found |-> FALSE]
    ELSE IF isNudge(Head(es), t) THEN [found |-> TRUE, item |-> Head(es)]
    ELSE nudgeItem(Tail(es), t)

\* Home: the Archive button is rendered from the 25th of the month on
isEndOfMonth(day) == day >= EndOfMonthDay

(***************************************************************************)
(* Storage.  A slot holds nothing, text that is not JSON, or the JSON text *)
(* of a value.                                                             *)
(***************************************************************************)
Absent == [kind |-> "absent"]
Malformed == [kind |-> "malformed"]

\* JSON.stringify of an array of records.  The amounts of the records the
\* App stores are finite (the amount input, type="number", delivers the
\* empty string or a valid number), so none is written as null.
JSONstringify(v) == [kind |-> "json", value |-> v]

\* whether JSON.parse of a slot's text throws
JSONparseThrows(slot) == slot.kind = "malformed"

\* JSON.parse of a slot's text that parses
JSONparse(slot) == slot.value

\* localStorage.getItem(key) || '[]'
getItemOrEmpty(store, key) ==
    IF store[key].kind = "absent" THEN JSONstringify(<<>>) ELSE store[key]

\* the ids of the records of a list
Ids(es) == {es[i].id : i \in 1..Len(es)}

\* the ids of the records a slot holds
SlotIds(slot) == IF slot.kind = "json" THEN Ids(slot.value) ELSE {}

(***************************************************************************)
(* The history of a run.                                                   *)
(***************************************************************************)
HistInit ==
    [created |-> {},           \* the ids of the records created so far
     preExpenses |-> <<>>,     \* while fresh: the active set before the archive
     preArchive |-> <<>>,      \* while fresh: the archive set before the archive
     archivedAt |-> -1,        \* while the window is open: the time of the archive
     superseded |-> <<>>,      \* the snapshot the last archive replaced while the
                               \* window of the archive before it was still open
     clicked |-> Null,         \* the person of the record most recently clicked
     window |-> "none",        \* of the last archive: "fresh" (open, and no handler
                               \* ran since), "open", "undone" or "expired"
     raised |-> FALSE]         \* whether an error escaped a handler or an effect

\* the App as constructed, over the given slots
InitApp(active, archive) ==
    /\ phase = "mounting"
    /\ pending = <<>>
    /\ effectPending = FALSE
    /\ view = "home"
    /\ expenses = <<>>
    /\ selectedPerson = Null
    /\ searchQuery = <<>>
    /\ showUndo = FALSE
    /\ lastArchivedData = <<>>
    /\ undoTimeoutRef = NullTimer
    /\ localStorage = [k \in {STORAGE_KEY, ARCHIVE_KEY} |->
                          IF k = STORAGE_KEY THEN active ELSE archive]
    /\ timers = {}
    /\ nextTimer = 1
    /\ clock = 0
    /\ nextId = 1
    /\ hist = [HistInit EXCEPT !.created = SlotIds(active) \cup SlotIds(archive)]

NoResult == [kind |-> "none"]

\* the inputs of the pure computations, when the App itself is run
InitFn ==
    /\ records = <<>>
    /\ query = <<>>
    /\ now = 0
    /\ out = NoResult

\* sequences over S of length at most n
SeqsUpTo(S, n) == UNION {[1..k -> S] : k \in 0..n}

\* the records of es, numbered by position
WithIds(es) == [i \in 1..Len(es) |-> [es[i] EXCEPT !.id = i]]

Rohit == <<"R","o","h","i","t">>
Chai == <<"C","h","a","i">>

(***************************************************************************)
(* PersonDetail on one person's records.                                   *)
(***************************************************************************)
\* 1, 1.5, 120 and 200, whole numbers of halves, with every status, and
\* 0.1 and 0.2 paid and 0.3 received, which are not
BalanceAmounts == {whole(1), decimal(15, 1), whole(120), whole(200)}
BalanceRecords ==
    {Expense(0, a, Rohit, UPI, <<>>, s, 0) : a \in BalanceAmounts, s \in PaymentStatus}
    \cup {Expense(0, decimal(1, 1), Rohit, UPI, <<>>, "I Paid", 0),
          Expense(0, decimal(2, 1), Rohit, UPI, <<>>, "I Paid", 0),
          Expense(0, decimal(3, 1), Rohit, UPI, <<>>, "They Paid", 0)}

InitBalance ==
    /\ InitApp(Absent, Absent)
    /\ records \in {WithIds(es) : es \in SeqsUpTo(BalanceRecords, MaxLen)}
    /\ query = <<>>
    /\ now = 0
    /\ out = NoResult

\* PersonDetail renders: lines 412-416 and 425
RenderPersonDetail ==
    /\ out = NoResult
    /\ out' = [kind |-> "detail",
               balance |-> balance(records),
               balanceText |-> balanceText(balance(records))]
    /\ UNCHANGED <<records, query, now>>
    /\ UNCHANGED appVars

NextBalance == RenderPersonDetail

SpecBalance == InitBalance /\ [][NextBalance]_vars

\* x is a whole number of halves
C4_IsHalves(x) ==
    isFinite(x) /\ (x.exp >= 0 \/ (x.exp = 0 - LimbBits /\ x.sig[1] % pow2(LimbBits - 1) = 0))

\* x is a whole number of quarters
C4_IsQuarters(x) ==
    isFinite(x) /\ (x.exp >= 0 \/ (x.exp = 0 - LimbBits /\ x.sig[1] % pow2(LimbBits - 2) = 0))

\* a whole number of quarters below 2^29, in quarters
C4_Quarters(x) ==
    LET n == IF x.exp >= 0 THEN 4 * intOfNat(natShift(x.sig, x.exp \div LimbBits))
             ELSE intOfNat(x.sig) \div pow2(LimbBits - 2)
    IN IF x.neg THEN 0 - n ELSE n

\* the contribution to the balance of one record whose amount is a whole
\* number of halves, in quarters
C4_Contribution(e) ==
    CASE e.status = "I Paid" -> C4_Quarters(e.amount)
      [] e.status = "Split" -> C4_Quarters(e.amount) \div 2
      [] e.status = "They Paid" -> 0 - C4_Quarters(e.amount)

\* the sum of the contributions of the records of es at the places I,
\* taken in no order
RECURSIVE C4_Sum(_, _)
C4_Sum(es, I) ==
    IF I = {} THEN 0
    ELSE LET i == CHOOSE j \in I : TRUE
         IN C4_Contribution(es[i]) + C4_Sum(es, I \ {i})

C4_Reordered(es) ==
    {[i \in 1..Len(es) |-> es[p[i]]] : p \in Permutations(1..Len(es))}

\* the contribution of one record, any amount, as a Number: half of a
\* finite amount of the size of the inputs is exact
C4_Term(e) ==
    CASE e.status = "I Paid" -> e.amount
      [] e.status = "Split" -> half(e.amount)
      [] e.status = "They Paid" -> negate(e.amount)

\* the decimal a finite Number is written as (0.1 for the double nearest to
\* 0.1): sign, digits n and exponent, for n * 10^e10
C4_Decimal(x) ==
    IF x.sig = <<>> THEN [neg |-> FALSE, n |-> <<>>, e10 |-> 0]
    ELSE LET s == stripped(shortest(abs(x), expansion(x), 1))
         IN [neg |-> x.neg, n |-> natOfDigits(s.c, <<>>), e10 |-> s.e10]

\* the contribution of one record as a decimal: half of n * 10^e10 is
\* 5 * n * 10^(e10 - 1)
C4_DecimalTerm(e) ==
    LET d == C4_Decimal(e.amount)
    IN CASE e.status = "I Paid" -> d
         [] e.status = "Split" -> [d EXCEPT !.n = natMul(@, 5), !.e10 = @ - 1]
         [] e.status = "They Paid" -> [d EXCEPT !.neg = ~@]

\* the sum of two decimals, in decimal arithmetic
C4_DecimalSum(x, y) ==
    LET e == IF x.e10 < y.e10 THEN x.e10 ELSE y.e10
        a == natTimes(x.n, 10, x.e10 - e)
        b == natTimes(y.n, 10, y.e10 - e)
    IN IF x.neg = y.neg THEN [neg |-> x.neg, n |-> natAdd(a, b), e10 |-> e]
       ELSE IF natLess(a, b) THEN [neg |-> y.neg, n |-> natSub(b, a), e10 |-> e]
       ELSE [neg |-> x.neg, n |-> natSub(a, b), e10 |-> e]

\* the sum of the contributions of es in decimal arithmetic, after acc
RECURSIVE C4_DecimalTotal(_, _)
C4_DecimalTotal(acc, es) ==
    IF es = <<>> THEN acc
    ELSE C4_DecimalTotal(C4_DecimalSum(acc, C4_DecimalTerm(Head(es))), Tail(es))

\* C4 as stated: the balance of every sequence of one person's records is
\* the sum of +amount for I Paid, +amount/2 for Split and -amount for They
\* Paid; it is 0 for the empty sequence and the same for every order of the
\* records.  The sum is read in the way most favourable to the code: the
\* amounts are added as the decimals they are written as, and the balance
\* has to be the double nearest to that sum.
C4_AsStated ==
    out.kind = "detail" =>
        LET total == C4_DecimalTotal(C4_Decimal(whole(0)), records)
        IN /\ out.balance = decimalDouble(total.neg, total.n, total.e10)
           /\ (records = <<>> => out.balance = whole(0))
           /\ \A es \in C4_Reordered(records) : balance(es) = out.balance

\* C4: the balance is 0 for the empty sequence and the contribution itself
\* for a single record: +amount for I Paid, +amount/2 for Split, -amount for
\* They Paid.  For a sequence whose amounts are all whole numbers of halves
\* it is the sum of the contributions, a whole number of quarters, and the
\* same for every order of the records.  For other amounts the balance is
\* that sum with each addition rounded to a double, which C4 as stated
\* misses.
C4_BalanceIsSum ==
    out.kind = "detail" =>
        /\ isFinite(out.balance)
        /\ (records = <<>> => out.balance = whole(0))
        /\ (Len(records) = 1 => out.balance = C4_Term(records[1]))
        /\ (\A i \in 1..Len(records) : C4_IsHalves(records[i].amount)) =>
               /\ C4_IsQuarters(out.balance)
               /\ C4_Quarters(out.balance) = C4_Sum(records, 1..Len(records))
               /\ \A es \in C4_Reordered(records) : balance(es) = out.balance

\* I Paid 120, Split 1.5, They Paid 200: 120 + 0.75 - 200 = -79.25
C4_Witness ==
    /\ out.kind = "detail"
    /\ Len(records) = 3
    /\ records[1].status = "I Paid" /\ records[1].amount = whole(120)
    /\ records[2].status = "Split" /\ records[2].amount = decimal(15, 1)
    /\ records[3].status = "They Paid" /\ records[3].amount = whole(200)
    /\ out.balance = decimal(-7925, 2)

\* the whole numbers nearest to the magnitude of a finite b below 2^30:
\* those of the two around it that are within a half of it.  With
\* b = sig * 2^exp below 1 in its last place, the whole number N is
\* N * 2^-exp in the units of sig.
C5_Rounded(b) ==
    IF b.exp >= 0 THEN {intOfNat(natShift(b.sig, b.exp \div LimbBits))}
    ELSE LET q == (0 - b.exp) \div LimbBits
             one == natShift(<<1>>, q)
             floor == intOfNat(drop(b.sig, q))
             away(N) == LET n == natShift(natOfInt(N), q)
                        IN IF natLess(n, b.sig) THEN natSub(b.sig, n)
                           ELSE natSub(n, b.sig)
         IN {N \in {floor, floor + 1} :
                ~natLess(one, natAdd(away(N), away(N)))}

\* C5: the label is 'Owes you N' exactly when the balance is positive,
\* 'You owe N' exactly when it is negative and 'Settled Up' exactly when it
\* is zero, N being the magnitude rounded to a whole unit; a single I Paid
\* 120 gives 'Owes you 120' and a single They Paid 200 gives 'You owe 200'.
C5_BalanceLabel ==
    out.kind = "detail" =>
        LET b == out.balance
            t == out.balanceText
        IN /\ (~b.neg /\ b.sig # <<>>) <=> \E N \in C5_Rounded(b) : t = "Owes you ₹" \o text(natToString(N))
           /\ (b.neg /\ b.sig # <<>>) <=> \E N \in C5_Rounded(b) : t = "You owe ₹" \o text(natToString(N))
           /\ b.sig = <<>> <=> t = "Settled Up"
           /\ (Len(records) = 1 /\ records[1].status = "I Paid"
                 /\ records[1].amount = whole(120)) => t = "Owes you ₹120"
           /\ (Len(records) = 1 /\ records[1].status = "They Paid"
                 /\ records[1].amount = whole(200)) => t = "You owe ₹200"

C5_Witness ==
    /\ out.kind = "detail"
    /\ Len(records) = 2
    /\ out.balance = whole(0)
    /\ out.balanceText = "Settled Up"

(***************************************************************************)
(* The search filter on a list of records.                                 *)
(***************************************************************************)
Al == <<"A","l">>
Eric == <<"É","r","i","c">>

\* 1.5 and 120
FilterAmounts == {decimal(15, 1), whole(120)}
FilterRecords ==
    {Expense(0, a, p, m, Chai, "I Paid", 0) : a \in FilterAmounts, p \in {Rohit, Eric},
                                              m \in PaymentMode}
    \cup {ExpenseNoLabel(0, a, p, m, "I Paid", 0) : a \in FilterAmounts,
                                                    p \in {Rohit, Eric},
                                                    m \in PaymentMode}
FilterQueries ==
    {<<>>, <<"r","o","h","i","t">>, <<"R","O","H","I","T">>, <<"c","h","a","i">>,
     <<"1","2">>, <<"1",".">>, <<"U","p","i">>, <<"a">>, <<"É","R">>, <<"x">>}

InitFilter ==
    /\ InitApp(Absent, Absent)
    /\ records \in {WithIds(es) : es \in SeqsUpTo(FilterRecords, MaxFilterLen)}
    /\ query \in FilterQueries
    /\ now = 0
    /\ out = NoResult

\* the useMemo of lines 62-71 is evaluated
ComputeFiltered ==
    /\ out = NoResult
    /\ out' = [kind |-> "filter", value |-> filteredExpenses(records, query)]
    /\ UNCHANGED <<records, query, now>>
    /\ UNCHANGED appVars

NextFilter == ComputeFiltered

SpecFilter == InitFilter /\ [][NextFilter]_vars

\* q is a substring of s
C8_Occurs(s, q) ==
    \E i \in 0..(Len(s) - Len(q)) : SubSeq(s, i + 1, i + Len(q)) = q

\* the records the claim selects for the query q
C8_Selected(e, q) ==
    LET lq == toLowerCase(q)
        label == IF "label" \in DOMAIN e THEN e.label ELSE <<>>
    IN \/ C8_Occurs(toLowerCase(e.person), lq)
       \/ C8_Occurs(toLowerCase(label), lq)
       \/ C8_Occurs(toString(e.amount), lq)
       \/ C8_Occurs(toLowerCase(e.mode), lq)

\* C8: the filter returns its input unchanged for the empty query, and for
\* a non-empty query exactly the records, in their order, of which the
\* lowercased query is a substring of the lowercased person, label (absent
\* counting as empty), decimal amount or lowercased mode; 'Rohit' matches
\* both 'rohit' and 'ROHIT'.
C8_FilterSelects ==
    out.kind = "filter" =>
        LET Sel(e) == C8_Selected(e, query)
        IN /\ query = <<>> => out.value = records
           /\ query # <<>> => out.value = SelectSeq(records, Sel)
           /\ query \in {<<"r","o","h","i","t">>, <<"R","O","H","I","T">>} =>
                 \A i \in 1..Len(records) :
                     records[i].person = <<"R","o","h","i","t">> =>
                         \E j \in 1..Len(out.value) : out.value[j] = records[i]

C8_Witness ==
    /\ out.kind = "filter"
    /\ query = <<"U","p","i">>
    /\ Len(records) = 2
    /\ records[1].mode = Cash
    /\ records[2].mode = UPI
    /\ out.value = <<records[2]>>

(***************************************************************************)
(* The nudge on a list of records.                                         *)
(***************************************************************************)
NudgeNow == NudgeMaxDays * DayMs + NudgeMinDays * DayMs
NudgeAges ==
    {2 * DayMs, NudgeMinDays * DayMs, NudgeMinDays * DayMs + 1, 4 * DayMs,
     NudgeMaxDays * DayMs - 1, NudgeMaxDays * DayMs, 8 * DayMs}
NudgeRecords ==
    {Expense(0, whole(120), Rohit, UPI, <<>>, "I Paid", NudgeNow - age) : age \in NudgeAges}

InitNudge ==
    /\ InitApp(Absent, Absent)
    /\ records \in {WithIds(es) : es \in SeqsUpTo(NudgeRecords, MaxLen)}
    /\ query = <<>>
    /\ now = NudgeNow
    /\ out = NoResult

\* Home renders: lines 130-133
RenderHomeNudge ==
    /\ out = NoResult
    /\ out' = [kind |-> "nudge", value |-> nudgeItem(records, now)]
    /\ UNCHANGED <<records, query, now>>
    /\ UNCHANGED appVars

NextNudge == RenderHomeNudge

SpecNudge == InitNudge /\ [][NextNudge]_vars

\* the age of e is strictly between 3 and 7 days
C9_Qualifies(e) ==
    /\ 3 * DayMs < now - e.timestamp
    /\ now - e.timestamp < 7 * DayMs

\* C9: the nudge is the first record in list order whose age is strictly
\* more than 3 days and strictly less than 7 days, and none when no record
\* qualifies; a record aged exactly 2, 3, 7 or 8 days never qualifies.
C9_NudgeIsFirstInWindow ==
    out.kind = "nudge" =>
        LET r == out.value
        IN /\ r.found =>
                 \E i \in 1..Len(records) :
                     /\ records[i] = r.item
                     /\ C9_Qualifies(records[i])
                     /\ \A j \in 1..(i - 1) : ~C9_Qualifies(records[j])
           /\ ~r.found => \A i \in 1..Len(records) : ~C9_Qualifies(records[i])
           /\ r.found =>
                 now - r.item.timestamp \notin {2 * DayMs, 3 * DayMs, 7 * DayMs, 8 * DayMs}

C9_Witness ==
    /\ out.kind = "nudge"
    /\ Len(records) = 3
    /\ now - records[1].timestamp = 3 * DayMs
    /\ now - records[2].timestamp = 4 * DayMs
    /\ now - records[3].timestamp = 3 * DayMs + 1
    /\ out.value.found
    /\ out.value.item = records[2]

(***************************************************************************)
(* The App.  Every event handler is one step: React renders the updates a  *)
(* handler makes before the next event is handled, and runs the effects of *)
(* that render with it.  The update the load effect or a timer callback    *)
(* makes is queued (pending) and rendered in a step of its own, and the    *)
(* save effect (lines 25-27) of such a render runs in a further step       *)
(* (effectPending); handlers can run before either step.  An effect that   *)
(* is pending when a handler makes React render runs before that render.   *)
(***************************************************************************)
StoredActive == <<Expense(101, whole(200), Rohit, Cash, Chai, "They Paid", 0)>>
StoredArchive == <<Expense(100, whole(120), Al, UPI, <<>>, "I Paid", 0)>>
ActiveSlots == {Absent, Malformed, JSONstringify(StoredActive)}
ArchiveSlots == {Absent, Malformed, JSONstringify(StoredArchive)}

\* what the form's fields can hold when Save is pressed
AmountInputs == {<<>>, <<"0">>, <<"1",".","5">>}
PersonInputs == {<<>>, <<"\t">>, <<"A","l"," ">>}
ModeInputs == {UPI}
LabelInputs == {<<>>}
StatusInputs == {"I Paid"}
QueryInputs == {<<>>, <<"a">>}
DayInputs == {EndOfMonthDay - 1, EndOfMonthDay}

Init ==
    /\ \E a \in ActiveSlots, r \in ArchiveSlots :
          /\ InitApp(a, r)
    /\ InitFn

\* Home's list: expense.person[0].toUpperCase() throws on an empty person
renderThrows(v, es, sq) ==
    /\ v = "home"
    /\ \E i \in 1..Len(filteredExpenses(es, sq)) :
          filteredExpenses(es, sq)[i].person = <<>>

\* the slots once the save effect that is pending, if one is, has run: it
\* writes the active set its render showed
flushed(store) ==
    IF effectPending
    THEN [store EXCEPT ![STORAGE_KEY] = JSONstringify(expenses)]
    ELSE store

\* the render after a handler and, when expenses was set, the save effect
Commit(v, es, sq, store, saved) ==
    IF renderThrows(v, es, sq)
    THEN /\ phase' = "crashed"
         /\ localStorage' = store
    ELSE /\ phase' = "ready"
         /\ localStorage' = IF saved
                            THEN [store EXCEPT ![STORAGE_KEY] = JSONstringify(es)]
                            ELSE store

\* a handler ran
Touched ==
    [hist EXCEPT !.window = IF @ = "fresh" THEN "open" ELSE @,
                 !.preExpenses = <<>>,
                 !.preArchive = <<>>]

\* the window of the last archive ended, by undo or by expiry
Closed(how) == [Touched EXCEPT !.window = how, !.archivedAt = -1]

\* the first render and its effects: load (lines 18-23), then save (25-27)
MountEffects ==
    /\ phase = "mounting"
    /\ LET saved == localStorage[STORAGE_KEY] IN
       IF saved.kind = "absent"
       THEN /\ phase' = "ready"
            /\ pending' = <<>>
            /\ localStorage' = [localStorage EXCEPT ![STORAGE_KEY] = JSONstringify(expenses)]
            /\ hist' = hist
       ELSE IF JSONparseThrows(saved)
       THEN /\ phase' = "crashed"
            /\ pending' = <<>>
            /\ localStorage' = localStorage
            /\ hist' = [hist EXCEPT !.raised = TRUE]
       ELSE /\ phase' = "ready"
            /\ pending' = <<[set |-> "expenses", value |-> JSONparse(saved)]>>
            /\ localStorage' = [localStorage EXCEPT ![STORAGE_KEY] = JSONstringify(expenses)]
            /\ hist' = hist
    /\ UNCHANGED <<effectPending, view, expenses, selectedPerson, searchQuery, showUndo,
                   lastArchivedData, undoTimeoutRef, timers, nextTimer, clock, nextId>>
    /\ UNCHANGED fnVars

\* the render that applies the set the load effect queued (line 21); its
\* save effect is left pending
Rerender ==
    /\ phase = "ready"
    /\ pending # <<>>
    /\ Head(pending).set = "expenses"
    /\ expenses' = Head(pending).value
    /\ pending' = <<>>
    /\ phase' = IF renderThrows(view, Head(pending).value, searchQuery)
                THEN "crashed" ELSE "ready"
    /\ effectPending' = ~renderThrows(view, Head(pending).value, searchQuery)
    /\ UNCHANGED <<view, selectedPerson, searchQuery, showUndo, lastArchivedData,
                   undoTimeoutRef, localStorage, timers, nextTimer, clock, nextId, hist>>
    /\ UNCHANGED fnVars

\* the save effect (lines 25-27) of that render runs
SaveEffect ==
    /\ phase = "ready"
    /\ effectPending
    /\ effectPending' = FALSE
    /\ localStorage' = flushed(localStorage)
    /\ UNCHANGED <<phase, pending, view, expenses, selectedPerson, searchQuery, showUndo,
                   lastArchivedData, undoTimeoutRef, timers, nextTimer, clock, nextId, hist>>
    /\ UNCHANGED fnVars

\* Home: onAddClick (line 90)
OnAddClick ==
    /\ phase = "ready"
    /\ view = "home"
    /\ view' = "add"
    /\ Commit("add", expenses, searchQuery, flushed(localStorage), FALSE)
    /\ effectPending' = FALSE
    /\ hist' = Touched
    /\ UNCHANGED <<pending, expenses, selectedPerson, searchQuery, showUndo,
                   lastArchivedData, undoTimeoutRef, timers, nextTimer, clock, nextId>>
    /\ UNCHANGED fnVars

\* AddExpense and PersonDetail: onBack (lines 101, 108)
OnBack ==
    /\ phase = "ready"
    /\ view \in {"add", "person"}
    /\ view' = "home"
    /\ Commit("home", expenses, searchQuery, flushed(localStorage), FALSE)
    /\ effectPending' = FALSE
    /\ hist' = Touched
    /\ UNCHANGED <<pending, expenses, selectedPerson, searchQuery, showUndo,
                   lastArchivedData, undoTimeoutRef, timers, nextTimer, clock, nextId>>
    /\ UNCHANGED fnVars

\* onPersonClick without setSelectedPerson(name): the selection stays as it was
OnPersonClick_Stale(i) ==
    /\ phase = "ready"
    /\ view = "home"
    /\ i \in 1..Len(filteredExpenses(expenses, searchQuery))
    /\ selectedPerson' = selectedPerson
    /\ view' = "person"
    /\ Commit("person", expenses, searchQuery, flushed(localStorage), FALSE)
    /\ effectPending' = FALSE
    /\ hist' = [Touched EXCEPT
                   !.clicked = filteredExpenses(expenses, searchQuery)[i].person]
    /\ UNCHANGED <<pending, expenses, searchQuery, showUndo, lastArchivedData,
                   undoTimeoutRef, timers, nextTimer, clock, nextId>>
    /\ UNCHANGED fnVars

\* Home: a click on the i-th record of the list shown (lines 91, 187)
OnPersonClick(i) ==
    /\ phase = "ready"
    /\ view = "home"
    /\ i \in 1..Len(filteredExpenses(expenses, searchQuery))
    /\ selectedPerson' = filteredExpenses(expenses, searchQuery)[i].person
    /\ view' = "person"
    /\ Commit("person", expenses, searchQuery, flushed(localStorage), FALSE)
    /\ effectPending' = FALSE
    /\ hist' = [Touched EXCEPT
                   !.clicked = filteredExpenses(expenses, searchQuery)[i].person]
    /\ UNCHANGED <<pending, expenses, searchQuery, showUndo, lastArchivedData,
                   undoTimeoutRef, timers, nextTimer, clock, nextId>>
    /\ UNCHANGED fnVars

\* Home: the search box (line 160)
SetSearchQuery(q) ==
    /\ phase = "ready"
    /\ view = "home"
    /\ q # searchQuery
    /\ searchQuery' = q
    /\ Commit(view, expenses, q, flushed(localStorage), FALSE)
    /\ effectPending' = FALSE
    /\ hist' = Touched
    /\ UNCHANGED <<pending, view, expenses, selectedPerson, showUndo, lastArchivedData,
                   undoTimeoutRef, timers, nextTimer, clock, nextId>>
    /\ UNCHANGED fnVars

\* whether handleSave returns without saving (line 252)
saveBlocked(amount, person) == amount = <<>> \/ person = <<>>

\* the record handleSave passes to onSave (lines 253-260)
formExpense(amount, person, mode, label, status) ==
    [amount |-> parseFloat(amount), person |-> trim(person), mode |-> mode,
     label |-> trim(label), status |-> status]

\* addExpense (lines 29-37) and the render and save effect that follow
addExpense(expense) ==
    LET newExpense == Expense(nextId, expense.amount, expense.person, expense.mode,
                              expense.label, expense.status, clock)
    IN /\ expenses' = <<newExpense>> \o expenses
       /\ view' = "home"
       /\ nextId' = nextId + 1
       /\ Commit("home", <<newExpense>> \o expenses, searchQuery,
                 flushed(localStorage), TRUE)
       /\ effectPending' = FALSE
       /\ hist' = [Touched EXCEPT !.created = @ \cup {nextId}]

\* the queue of updates after a handler set the state named: the value the
\* handler sets is the later one, so a queued update of that state has no
\* effect any more
overridden(queue, name) == SelectSeq(queue, LAMBDA u : u.set # name)

\* AddExpense: the Save button (lines 251-261, 391)
HandleSave(amount, person, mode, label, status) ==
    /\ phase = "ready"
    /\ view = "add"
    /\ IF saveBlocked(amount, person)
       THEN /\ hist' = Touched
            /\ UNCHANGED <<phase, pending, effectPending, view, expenses, nextId,
                           localStorage>>
       ELSE /\ nextId <= MaxRecords
            /\ addExpense(formExpense(amount, person, mode, label, status))
            /\ pending' = overridden(pending, "expenses")
    /\ UNCHANGED <<selectedPerson, searchQuery, showUndo, lastArchivedData,
                   undoTimeoutRef, timers, nextTimer, clock>>
    /\ UNCHANGED fnVars

\* Array.prototype.slice(0, end)
slice0(a, end) ==
    LET n == Len(a)
        e == IF end < 0 THEN (IF n + end < 0 THEN 0 ELSE n + end)
             ELSE (IF end > n THEN n ELSE end)
    IN SubSeq(a, 1, e)

\* if (ref) clearTimeout(ref)
clearTimeout(ts, ref) == IF ref # NullTimer THEN {t \in ts : t.id # ref} ELSE ts

\* archiveTimers without the clearTimeout of line 46
archiveTimers_NoClear(ts, ref, id, t) == ts \cup {[id |-> id, due |-> t + UndoMs]}

\* lines 46-47: the pending timer is cleared and a new one is set
archiveTimers(ts, ref, id, t) ==
    clearTimeout(ts, ref) \cup {[id |-> id, due |-> t + UndoMs]}

\* line 43 with the records put in front of the archive
archiveSlot_Prepend(currentArchive, es) == JSONstringify(es \o currentArchive)

\* line 43: the text written to the archive slot
archiveSlot(currentArchive, es) == JSONstringify(currentArchive \o es)

\* archiveData (lines 39-48) and the render and save effect that follow
archiveData ==
    IF Len(expenses) = 0
    THEN /\ hist' = Touched
         /\ UNCHANGED <<phase, pending, effectPending, expenses, showUndo,
                        lastArchivedData, undoTimeoutRef, localStorage, timers, nextTimer>>
    ELSE IF JSONparseThrows(getItemOrEmpty(localStorage, ARCHIVE_KEY))
    THEN /\ lastArchivedData' = expenses
         /\ hist' = [Touched EXCEPT !.raised = TRUE]
         /\ UNCHANGED <<phase, pending, effectPending, expenses, showUndo,
                        undoTimeoutRef, localStorage, timers, nextTimer>>
    ELSE LET currentArchive == JSONparse(getItemOrEmpty(localStorage, ARCHIVE_KEY))
         IN /\ lastArchivedData' = expenses
            /\ expenses' = <<>>
            /\ showUndo' = TRUE
            /\ pending' = <<>>
            /\ effectPending' = FALSE
            /\ timers' = archiveTimers(timers, undoTimeoutRef, nextTimer, clock)
            /\ undoTimeoutRef' = nextTimer
            /\ nextTimer' = nextTimer + 1
            /\ Commit(view, <<>>, searchQuery,
                      [flushed(localStorage) EXCEPT
                          ![ARCHIVE_KEY] = archiveSlot(currentArchive, expenses)],
                      TRUE)
            /\ hist' = [hist EXCEPT
                           !.preExpenses = expenses,
                           !.preArchive = currentArchive,
                           !.archivedAt = clock,
                           !.superseded = IF hist.window \in {"fresh", "open"}
                                          THEN lastArchivedData
                                          ELSE <<>>,
                           !.window = "fresh"]

\* Home: the Archive button, shown from the 25th on when the list shown is
\* not empty, and the confirm dialog accepted (lines 142-148)
ArchiveClick(day) ==
    /\ phase = "ready"
    /\ view = "home"
    /\ isEndOfMonth(day)
    /\ Len(filteredExpenses(expenses, searchQuery)) > 0
    /\ nextTimer <= MaxArchives
    /\ archiveData
    /\ UNCHANGED <<view, selectedPerson, searchQuery, clock, nextId>>
    /\ UNCHANGED fnVars

\* undoSlice removing one record too few
undoSlice_OneLess(currentArchive, last) ==
    slice0(currentArchive, Len(currentArchive) - Len(last) + 1)

\* line 54: the archive without the records of the last archive
undoSlice(currentArchive, last) ==
    slice0(currentArchive, Len(currentArchive) - Len(last))

\* undoArchive (lines 50-60) and the render and save effect that follow
undoArchive ==
    IF Len(lastArchivedData) > 0
    THEN IF JSONparseThrows(getItemOrEmpty(localStorage, ARCHIVE_KEY))
         THEN /\ expenses' = lastArchivedData
              /\ Commit(view, lastArchivedData, searchQuery, flushed(localStorage), TRUE)
              /\ effectPending' = FALSE
              /\ hist' = [Touched EXCEPT !.raised = TRUE]
              /\ UNCHANGED <<pending, showUndo, lastArchivedData, timers>>
         ELSE LET currentArchive == JSONparse(getItemOrEmpty(localStorage, ARCHIVE_KEY))
                  newArchive == undoSlice(currentArchive, lastArchivedData)
              IN /\ expenses' = lastArchivedData
                 /\ lastArchivedData' = <<>>
                 /\ showUndo' = FALSE
                 /\ pending' = <<>>
                 /\ effectPending' = FALSE
                 /\ timers' = clearTimeout(timers, undoTimeoutRef)
                 /\ Commit(view, lastArchivedData, searchQuery,
                           [flushed(localStorage) EXCEPT
                               ![ARCHIVE_KEY] = JSONstringify(newArchive)],
                           TRUE)
                 /\ hist' = Closed("undone")
    ELSE /\ hist' = Touched
         /\ UNCHANGED <<phase, pending, effectPending, expenses, showUndo,
                        lastArchivedData, localStorage, timers>>

\* line 113: the Undo button is rendered while showUndo is set
undoButtonShown == showUndo

\* the Undo button (lines 116-121)
UndoClick ==
    /\ phase = "ready"
    /\ undoButtonShown
    /\ undoArchive
    /\ UNCHANGED <<view, selectedPerson, searchQuery, undoTimeoutRef,
                   nextTimer, clock, nextId>>
    /\ UNCHANGED fnVars

\* the callback of line 47 runs: setShowUndo(false) is queued.  A state
\* update made in a timer callback is rendered in a later task, and a click
\* can be handled before it.  The timer is not cleared when a render threw:
\* its callback still runs, and its update of the unmounted App is dropped.
TimerFire(t) ==
    /\ phase \in {"ready", "crashed"}
    /\ t \in timers
    /\ clock >= t.due
    /\ timers' = timers \ {t}
    /\ pending' = IF phase = "crashed" THEN pending
                  ELSE overridden(pending, "showUndo")
                          \o <<[set |-> "showUndo", value |-> FALSE]>>
    /\ hist' = Closed("expired")
    /\ UNCHANGED <<phase, effectPending, view, expenses, selectedPerson, searchQuery,
                   showUndo, lastArchivedData, undoTimeoutRef, localStorage, nextTimer,
                   clock, nextId>>
    /\ UNCHANGED fnVars

\* the render that applies the update the timer callback queued
RenderQueued ==
    /\ phase = "ready"
    /\ pending # <<>>
    /\ Head(pending).set = "showUndo"
    /\ showUndo' = Head(pending).value
    /\ pending' = <<>>
    /\ UNCHANGED <<phase, effectPending, view, expenses, selectedPerson, searchQuery,
                   lastArchivedData, undoTimeoutRef, localStorage, timers, nextTimer,
                   clock, nextId, hist>>
    /\ UNCHANGED fnVars

\* time passes: Date.now() moves on by one step of the model's clock.  A
\* timer runs when it is due: time does not pass a timer that has not run.
Tick ==
    /\ clock + TickMs <= MaxTicks * TickMs
    /\ \A t \in timers : clock + TickMs <= t.due
    /\ clock' = clock + TickMs
    /\ UNCHANGED <<phase, pending, effectPending, view, expenses, selectedPerson,
                   searchQuery, showUndo, lastArchivedData, undoTimeoutRef, localStorage,
                   timers, nextTimer, nextId, hist>>
    /\ UNCHANGED fnVars

Next ==
    \/ MountEffects
    \/ Rerender
    \/ SaveEffect
    \/ OnAddClick
    \/ OnBack
    \/ \E i \in 1..(MaxRecords + 1) : OnPersonClick(i)
    \/ \E q \in QueryInputs : SetSearchQuery(q)
    \/ \E amount \in AmountInputs, person \in PersonInputs, mode \in ModeInputs,
          label \in LabelInputs, status \in StatusInputs :
          HandleSave(amount, person, mode, label, status)
    \/ \E day \in DayInputs : ArchiveClick(day)
    \/ UndoClick
    \/ \E t \in timers : TimerFire(t)
    \/ RenderQueued
    \/ Tick

Spec == Init /\ [][Next]_vars

(***************************************************************************)
(* Properties of the App.                                                  *)
(***************************************************************************)
\* the archive set: what the archive slot holds
ArchiveSet == JSONparse(getItemOrEmpty(
                  [localStorage EXCEPT ![ARCHIVE_KEY] =
                      IF @.kind = "malformed" THEN Absent ELSE @], ARCHIVE_KEY))

\* C1: once the App is mounted and the stored set is loaded (no update of
\* expenses is queued), every record created is in exactly one of the active
\* set and the archive set, never in both and never in neither.
C1_ExactlyOneSet ==
    (phase = "ready" /\ overridden(pending, "expenses") = pending) =>
        \A id \in hist.created :
            (id \in Ids(expenses)) # (id \in Ids(ArchiveSet))

\* the step is a run of undoArchive that restores the snapshot
UndoRan == lastArchivedData # <<>> /\ lastArchivedData' = <<>>

\* C2: archiveData immediately followed by undoArchive leaves the active set
\* identical to the one before the archive and the archive set as it was
\* before the archive: the records the archive appended are the ones
\* removed from its tail.
C2_UndoRestores ==
    [][(hist.window = "fresh" /\ UndoRan) =>
          /\ ArchiveSet = hist.preArchive \o hist.preExpenses
          /\ expenses' = hist.preExpenses
          /\ Len(ArchiveSet') = Len(hist.preArchive)
          /\ ArchiveSet' = hist.preArchive]_vars

C2_Witness ==
    /\ hist.window = "undone"
    /\ clock = 0
    /\ nextId = 1
    /\ nextTimer = 2
    /\ expenses = StoredActive
    /\ ArchiveSet = StoredArchive
    /\ showUndo = FALSE

\* C3: once the undo window of an archive has expired (its timer callback
\* has run) without an undo, no undo takes effect any more: no step restores
\* the snapshot, whatever was done to the active set after the expiry.
C3_NoUndoAfterExpiry ==
    [][hist.window = "expired" => ~UndoRan]_vars

\* C6: every record of the active set and of the archive set has a positive
\* amount and a non-empty person.
C6_RecordsValid ==
    \A i \in 1..Len(expenses \o ArchiveSet) :
        /\ greaterThan0((expenses \o ArchiveSet)[i].amount)
        /\ (expenses \o ArchiveSet)[i].person # <<>>

\* C7: no read of a storage slot raises an error, whatever the slot holds.
C7_ReadsFailSoft == hist.raised = FALSE

\* C10: at most one expiry timer is pending, it is the one of the last
\* archive, and after an archive the window stays open until 10 seconds
\* after that archive unless undo is invoked first.
C10_WindowOfLastArchive ==
    /\ Cardinality(timers) <= 1
    /\ \A t \in timers :
          /\ t.id = undoTimeoutRef
          /\ hist.window \in {"fresh", "open"}
          /\ t.due = hist.archivedAt + UndoMs
    /\ (hist.window \in {"fresh", "open"} /\ clock < hist.archivedAt + UndoMs) => showUndo

C10_Witness ==
    /\ nextTimer = 3
    /\ hist.window \in {"fresh", "open"}
    /\ hist.archivedAt = TickMs
    /\ clock = UndoMs
    /\ showUndo
    /\ timers = {[id |-> 2, due |-> TickMs + UndoMs]}

\* archiveData went through: it set a new timer
ArchiveRan == nextTimer' = nextTimer + 1

\* the last n records of a list
lastN(s, n) == SubSeq(s, Len(s) - n + 1, Len(s))

\* C11: an archive made while the undo window of the archive before it is
\* still open leaves in the undo buffer exactly the second snapshot and
\* appends it to the archive set; the undo that follows sets the active set to
\* that second snapshot and removes exactly those records from the tail of
\* the archive set, so that the records of the first archive stay at the end
\* of the archive set, unchanged and in order.
C11_SecondArchiveUndo ==
    [][/\ (ArchiveRan /\ hist.window \in {"fresh", "open"}) =>
              /\ lastArchivedData' = expenses
              /\ ArchiveSet' = ArchiveSet \o expenses
       /\ (UndoRan /\ hist.superseded # <<>>) =>
              /\ expenses' = lastArchivedData
              /\ ArchiveSet = ArchiveSet' \o lastArchivedData
              /\ Len(ArchiveSet') >= Len(hist.superseded)
              /\ lastN(ArchiveSet', Len(hist.superseded)) = hist.superseded
      ]_vars

\* the stored record was archived, a record was added and archived within
\* the window, and that second archive was undone
C11_Witness ==
    /\ hist.window = "undone"
    /\ hist.superseded = StoredActive
    /\ Len(expenses) = 1
    /\ expenses[1].id = 1
    /\ lastArchivedData = <<>>
    /\ ArchiveSet = StoredArchive \o StoredActive

\* C12: the undo buffer is non-empty only while the Undo button is shown:
\* it is filled by archiveData and is empty again after undoArchive and after
\* the expiry timer has fired.  Stated for the runs in which no error
\* escaped a handler (archiveData fills the buffer before it reads the
\* archive slot, so a malformed archive slot also leaves it filled).
C12_BufferOnlyWhileOpen ==
    ~hist.raised => (lastArchivedData # <<>> => showUndo)

\* the App is mounted and no render and no effect is pending
Quiescent == phase = "ready" /\ pending = <<>> /\ ~effectPending

\* the App started on the slot holding the stored active set S, and no
\* archive has gone through since
StartedOnStored ==
    /\ Ids(StoredActive) \subseteq hist.created
    /\ hist.window = "none"

\* C13: whenever the App is quiescent the active slot holds the in-memory
\* active set, after the start and after each completed add, archive and
\* undo; and the start on a slot holding the valid set S ends with S in
\* both: until an archive moves them, the records of S are in the active
\* set, behind the records added since (the slot is not left holding
\* another set).
C13_SlotAgrees ==
    Quiescent =>
        /\ localStorage[STORAGE_KEY] = JSONstringify(expenses)
        /\ StartedOnStored =>
               /\ Len(expenses) >= Len(StoredActive)
               /\ lastN(expenses, Len(StoredActive)) = StoredActive

\* lines 104-111: PersonDetail is rendered (a selection that is null or the
\* empty string is falsy)
personDetailShown ==
    /\ view = "person"
    /\ selectedPerson # Null
    /\ selectedPerson # <<>>

\* lines 105-107: the props PersonDetail is rendered with
personDetailProps ==
    [name |-> selectedPerson,
     expenses |-> SelectSeq(expenses, LAMBDA e : e.person = selectedPerson)]

\* the changes of screen the handlers of lines 90, 91, 101 and 108 make
ViewSteps ==
    {<<"home", "add">>, <<"add", "home">>, <<"home", "person">>, <<"person", "home">>}

\* C14: the screen is always one of home, add and person and changes only
\* home -> add, add -> home, home -> person and person -> home; whenever the
\* screen is person, a person is selected, it is the person of the record
\* most recently clicked, PersonDetail is rendered for that person with
\* that person's records, and the handler that leads back to home can run.
C14_Navigation ==
    /\ [](/\ view \in View
          /\ view = "person" =>
                /\ personDetailShown
                /\ selectedPerson = hist.clicked
                /\ personDetailProps.name = hist.clicked
                /\ \A i \in 1..Len(personDetailProps.expenses) :
                       personDetailProps.expenses[i].person = hist.clicked
                /\ phase = "ready"
                /\ ENABLED OnBack)
    /\ [][view' # view => <<view, view'>> \in ViewSteps]_vars

\* with the stored record and a new one in the list, the new one was clicked
C14_Witness ==
    /\ view = "person"
    /\ Len(expenses) = 2
    /\ expenses[1].person = Al
    /\ expenses[2].person = Rohit
    /\ hist.clicked = Al
    /\ selectedPerson = Al
    /\ Len(personDetailProps.expenses) = 1

====
